---- MODULE Spec2Model ----
(***************************************************************************)
(* serde_path_to_error: a decorator around a serde Deserializer that       *)
(* records, in a Track, the Path of the value at which decoding failed.    *)
(*                                                                         *)
(* The decode is a recursion in which decorator code (this crate) and      *)
(* external code (the wrapped backend, the caller's visitors and seeds)    *)
(* alternate.  `stack` holds the decorator calls in progress, innermost    *)
(* last.  While pc = "ext" the delegate of the innermost decorator call is *)
(* running: it may call a decorator object it was handed, or return.       *)
(* While pc = "dec" that delegate has returned `res` and the decorator is  *)
(* about to run its map_err and return to its own caller.                  *)
(***************************************************************************)
EXTENDS Naturals, Sequences, FiniteSets, TLC

VARIABLES
  stack,      \* the decorator calls in progress, outermost first
  pc,         \* "ext": a delegate runs; "dec": it has returned; "done";
              \* "shown": the caller has rendered the Path of the Error
  res,        \* the result in flight (last returned by a call)
  track,      \* Track.path: Option<Path>
  result,     \* what deserialize() returned to the caller
  lax,        \* whether the external code of this decode may recover from errors
  recovered,  \* errors the external code did not propagate
  first,      \* history: the chain of the first trigger call on the Track
  seen,       \* history: the first trigger call for the error in flight: its chain,
              \* and whether a leaf callback of Wrap made it
  buffered,   \* history: the most segments in the Path of a map value decoded so far
  hint,       \* the last size_hint exchange
  shown,      \* the rendering of the Path of the Error, once the caller asked for it
  copied,     \* the owned copies of key or variant text the last step made
  only_unknown  \* what is_only_unknown answered for the Path of the Error, once asked

vars == <<stack, pc, res, track, result, lax, recovered, first, seen, buffered, hint, shown,
          copied, only_unknown>>

(***************************************************************************)
(* Bounds of the exploration.                                              *)
(***************************************************************************)
\* decorator calls in progress at once, when the external code propagates every error
MaxDepth == 9
\* decorator calls in progress at once, when the external code may recover from errors
MaxLaxDepth == 6
\* elements a sequence visitor asks for
MaxIndex == 2
\* errors the external code may swallow or replace in one decode
MaxRecover == 1

\* key and variant texts the backend delivers
Keys == {"a", "b"}
\* values of primitive callbacks and of successful results
Values == {0, 1}

(***************************************************************************)
(* Option<T>: None is the empty sequence, Some(x) the one-element one.     *)
(***************************************************************************)
None == <<>>
Some(x) == <<x>>
is_none(o) == o = None
unwrap(o) == o[1]

(***************************************************************************)
(* path.rs: Segment and Path.  A Path is the sequence of its segments.     *)
(***************************************************************************)
SegmentSeq(i) == [t |-> "Seq", index |-> i, key |-> ""]
SegmentMap(k) == [t |-> "Map", index |-> 0, key |-> k]
SegmentEnum(v) == [t |-> "Enum", index |-> 0, key |-> v]
SegmentUnknown == [t |-> "Unknown", index |-> 0, key |-> ""]

empty == <<>>

(***************************************************************************)
(* lib.rs: Chain.  A chain is the list of its nodes from the leaf to the   *)
(* root: Head is the node, Tail its parent, Root the empty list.           *)
(***************************************************************************)
Root == <<>>
ChainSeq(parent, index) == <<[t |-> "Seq", index |-> index, key |-> ""]>> \o parent
ChainMap(parent, key) == <<[t |-> "Map", index |-> 0, key |-> key]>> \o parent
ChainStruct(parent, key) == <<[t |-> "Struct", index |-> 0, key |-> key]>> \o parent
ChainEnum(parent, variant) == <<[t |-> "Enum", index |-> 0, key |-> variant]>> \o parent
ChainSome(parent) == <<[t |-> "Some", index |-> 0, key |-> ""]>> \o parent
ChainNewtypeStruct(parent) == <<[t |-> "NewtypeStruct", index |-> 0, key |-> ""]>> \o parent
ChainNewtypeVariant(parent) == <<[t |-> "NewtypeVariant", index |-> 0, key |-> ""]>> \o parent
ChainNonStringKey(parent) == <<[t |-> "NonStringKey", index |-> 0, key |-> ""]>> \o parent

RECURSIVE reverse(_)
reverse(s) == IF s = <<>> THEN <<>> ELSE Append(reverse(Tail(s)), Head(s))

\* the loop of Path::from_chain: one match arm per Chain variant
RECURSIVE from_chain_loop(_, _)
from_chain_loop(chain, segments) ==
  IF chain = Root THEN segments
  ELSE LET n == Head(chain)
           parent == Tail(chain)
       IN CASE n.t = "Seq" -> from_chain_loop(parent, Append(segments, SegmentSeq(n.index)))
            [] n.t = "Map" -> from_chain_loop(parent, Append(segments, SegmentMap(n.key)))
            [] n.t = "Struct" -> from_chain_loop(parent, Append(segments, SegmentMap(n.key)))
            [] n.t = "Enum" -> from_chain_loop(parent, Append(segments, SegmentEnum(n.key)))
            [] n.t \in {"Some", "NewtypeStruct", "NewtypeVariant"} ->
                 from_chain_loop(parent, segments)
            [] n.t = "NonStringKey" -> from_chain_loop(parent, Append(segments, SegmentUnknown))

\* a conversion that leaves the segments in leaf-to-root order
from_chain_unreversed(chain) == from_chain_loop(chain, <<>>)

\* a conversion in which a wrapper at the leaf contributes a segment
from_chain_wrapper_segment(chain) ==
  IF chain # Root /\ Head(chain).t \in {"Some", "NewtypeStruct", "NewtypeVariant"}
  THEN Append(reverse(from_chain_loop(Tail(chain), <<>>)), SegmentUnknown)
  ELSE reverse(from_chain_loop(chain, <<>>))

from_chain(chain) == reverse(from_chain_loop(chain, <<>>))

is_unknown(segment) == segment.t = "Unknown"

\* any() in the place of all()
is_only_unknown_any(path) == \E i \in 1..Len(path) : is_unknown(path[i])

is_only_unknown(path) == \A i \in 1..Len(path) : is_unknown(path[i])

(***************************************************************************)
(* path.rs: Display.                                                       *)
(***************************************************************************)
DigitStr(d) ==
  CASE d = 0 -> "0" [] d = 1 -> "1" [] d = 2 -> "2" [] d = 3 -> "3" [] d = 4 -> "4"
    [] d = 5 -> "5" [] d = 6 -> "6" [] d = 7 -> "7" [] d = 8 -> "8" [] d = 9 -> "9"

RECURSIVE usize_to_string(_)
usize_to_string(n) ==
  IF n < 10 THEN DigitStr(n) ELSE usize_to_string(n \div 10) \o DigitStr(n % 10)

fmt_Segment(segment) ==
  CASE segment.t = "Seq" -> "[" \o usize_to_string(segment.index) \o "]"
    [] segment.t \in {"Map", "Enum"} -> segment.key
    [] segment.t = "Unknown" -> "?"

RECURSIVE fmt_Path_loop(_, _, _)
fmt_Path_loop(segments, separator, out) ==
  IF segments = <<>> THEN out
  ELSE LET segment == Head(segments)
           sep == IF segment.t # "Seq" THEN out \o separator ELSE out
       IN fmt_Path_loop(Tail(segments), ".", sep \o fmt_Segment(segment))

\* a separator that starts as "." instead of ""
fmt_Path_leading_separator(path) == IF path = <<>> THEN "." ELSE fmt_Path_loop(path, ".", "")

fmt_Path(path) == IF path = <<>> THEN "." ELSE fmt_Path_loop(path, "", "")

(***************************************************************************)
(* lib.rs: Track.                                                          *)
(***************************************************************************)
Track_new == None

\* a path() that forgets the stored Path
Track_path_forgets(t) == empty

\* a path() that returns a placeholder segment when nothing is stored
Track_path_placeholder(t) == IF is_none(t) THEN <<SegmentUnknown>> ELSE unwrap(t)

Track_path(t) == IF is_none(t) THEN empty ELSE unwrap(t)

\* a Track that keeps the last trigger instead of the first
trigger_impl_last_wins(t, chain) == Some(from_chain(chain))

trigger_impl(t, chain) == IF is_none(t) THEN Some(from_chain(chain)) ELSE t

\* key.clone() and variant.clone() in from_chain
from_chain_copies(chain) ==
  Cardinality({i \in 1..Len(chain) : chain[i].t \in {"Map", "Struct", "Enum"}})

\* a Path materialized before the Track is looked at
trigger_copies_eager(t, chain) == from_chain_copies(chain)

\* the copies trigger_impl makes
trigger_copies(t, chain) == IF is_none(t) THEN from_chain_copies(chain) ELSE 0

\* a trigger that returns another error than the one it was given
trigger_other_error(t, chain, err) == [track |-> trigger_impl(t, chain), err |-> err + 1]

\* trigger: the Track after the call and the error it returns
trigger(t, chain, err) == [track |-> trigger_impl(t, chain), err |-> err]

(***************************************************************************)
(* Results.  Ok carries a value, Err an error; errors are numbered in the  *)
(* order in which the external code produces them.                         *)
(***************************************************************************)
NoRes == [kind |-> "none", val |-> 0, err |-> 0]
Ok(v) == [kind |-> "ok", val |-> v, err |-> 0]
Err(e) == [kind |-> "err", val |-> 0, err |-> e]

NoResult == [kind |-> "none", val |-> 0, path |-> empty, original |-> 0]

NoArg == [kind |-> "", v |-> 0, s |-> ""]

(***************************************************************************)
(* A decorator call in progress.                                           *)
(*   op      the decorator operation                                       *)
(*   arg     the callback and argument as received (visit_* only)          *)
(*   fwd     the callback and argument as passed on to the delegate        *)
(*   chain   the chain its map_err passes to trigger                       *)
(*   nested  the chain of the decorator object handed to the delegate      *)
(*   used    whether the delegate has consumed that by-value object        *)
(*   index   SeqAccess.index                                               *)
(*   key     MapAccess.key, or the local `variant` of variant_seed         *)
(*   va      the WrapVariant that variant_seed returned to the visitor     *)
(*   slot    CaptureKey.key: the position of the frame owning the slot     *)
(*   delivered, entry   history: the key the backend delivered in the most *)
(*           recent next-key call (Some(text), or None when the callback   *)
(*           carried no text); the one of the entry being decoded          *)
(*   ended   history: the most recent next-key call returned Ok(None)      *)
(*   calls   history: the next_element_seed calls made on this SeqAccess   *)
(***************************************************************************)
Frame(op, chain, nested) ==
  [op |-> op, arg |-> NoArg, fwd |-> NoArg, chain |-> chain, nested |-> nested,
   used |-> FALSE, index |-> 0, key |-> None, va |-> None, slot |-> 0,
   delivered |-> None, entry |-> None, ended |-> FALSE, calls |-> 0]

Top == stack[Len(stack)]
Below == stack[Len(stack) - 1]
Pop == SubSeq(stack, 1, Len(stack) - 1)
SetTop(f) == [stack EXCEPT ![Len(stack)] = f]
Push(f, g) == Append(SetTop(f), g)

(***************************************************************************)
(* The state after deserialize() has built the Track and the Deserializer  *)
(* (chain Root) and called T::deserialize with it.                         *)
(***************************************************************************)
NoHint == [asked |-> FALSE, delegate |-> None, got |-> None]

Init ==
  /\ stack = <<Frame("deserialize", Root, Root)>>
  /\ pc = "ext"
  /\ res = NoRes
  /\ track = Track_new
  /\ result = NoResult
  /\ lax \in BOOLEAN
  /\ recovered = 0
  /\ first = None
  /\ seen = None
  /\ buffered = 0
  /\ hint = NoHint
  /\ shown = ""
  /\ copied = 0
  /\ only_unknown = None

(***************************************************************************)
(* The external code: the backend, the caller's visitors and seeds.        *)
(* It holds an error while res.kind = "err"; whatever it then does other   *)
(* than returning that error counts as a recovery.                         *)
(***************************************************************************)
Holding == res.kind = "err"
MayGoOn == Holding => lax /\ recovered < MaxRecover
GoOn == IF Holding THEN recovered + 1 ELSE recovered

\* delegates whose Ok value can only come from the decorator object they were given
ParamOps == {"Deserializer", "tuple_variant", "struct_variant", "CaptureKeyDe",
             "variant_seed", "newtype_variant_seed", "next_value_seed",
             "next_element_seed", "next_key_seed"}
\* delegates that return Option<Value>
OptionOps == {"next_element_seed", "next_key_seed"}

EnvReturnOk(v) ==
  /\ pc = "ext" /\ stack # <<>>
  /\ MayGoOn
  /\ Top.op \in ParamOps => res.kind = "ok" /\ v = res.val
  /\ pc' = "dec"
  /\ res' = Ok(v)
  /\ recovered' = GoOn
  /\ seen' = IF Holding THEN None ELSE seen
  /\ hint' = NoHint
  /\ UNCHANGED <<stack, track, result, lax, first, buffered, shown, only_unknown>>
  /\ copied' = 0

\* Ok(None): the end of the sequence or of the map
EnvReturnEnd ==
  /\ pc = "ext" /\ stack # <<>>
  /\ MayGoOn
  /\ Top.op \in OptionOps /\ ~Top.used
  /\ pc' = "dec"
  /\ res' = [kind |-> "end", val |-> 0, err |-> 0]
  /\ recovered' = GoOn
  /\ seen' = IF Holding THEN None ELSE seen
  /\ hint' = NoHint
  /\ UNCHANGED <<stack, track, result, lax, first, buffered, shown, only_unknown>>
  /\ copied' = 0

\* a new error: of the backend, or of a visitor or seed
EnvReturnErr ==
  /\ pc = "ext" /\ stack # <<>>
  /\ MayGoOn
  /\ pc' = "dec"
  /\ recovered' = GoOn
  /\ res' = Err(recovered' + 1)
  /\ seen' = None
  /\ hint' = NoHint
  /\ UNCHANGED <<stack, track, result, lax, first, buffered, shown, only_unknown>>
  /\ copied' = 0

\* the `?` of the external code: the error it received is the error it returns
EnvPropagate ==
  /\ pc = "ext" /\ stack # <<>>
  /\ Holding
  /\ pc' = "dec"
  /\ hint' = NoHint
  /\ UNCHANGED <<stack, res, track, result, lax, recovered, first, seen, buffered, shown, only_unknown>>
  /\ copied' = 0

(***************************************************************************)
(* Decorator operations, first half: from the call to the call of the      *)
(* delegate.                                                               *)
(***************************************************************************)
\* the nesting explored: the CaptureKey roles of a key do not nest and do not count
CaptureKeyOps == {"CaptureKeySeed", "CaptureKeyDe", "CaptureKeyVisit"}
Depth(s) == Cardinality({i \in 1..Len(s) : s[i].op \notin CaptureKeyOps})

CallWith(newstack, copying) ==
  /\ pc = "ext" /\ stack # <<>>
  /\ Depth(newstack) <= (IF lax THEN MaxLaxDepth ELSE MaxDepth)
  /\ MayGoOn
  /\ stack' = newstack
  /\ pc' = "ext"
  /\ res' = NoRes
  /\ recovered' = GoOn
  /\ seen' = IF Holding THEN None ELSE seen
  /\ hint' = NoHint
  /\ UNCHANGED <<track, result, lax, first, buffered, shown, only_unknown>>
  /\ copied' = copying

Call(top, frame) == CallWith(Push(top, frame), 0)

HoldsDeserializer(f) ==
  \/ f.op \in {"deserialize", "TrackedSeed"}
  \/ f.op = "Visit" /\ f.arg.kind \in {"some", "newtype_struct"}

\* Deserializer::deserialize_any .. deserialize_identifier
DeserializerCall ==
  /\ stack # <<>> /\ HoldsDeserializer(Top) /\ ~Top.used
  /\ LET chain == Top.nested
     IN Call([Top EXCEPT !.used = TRUE], Frame("Deserializer", chain, chain))

LeafKinds == {"bool", "str", "unit"}
WrapKinds == LeafKinds \cup {"some", "newtype_struct", "seq", "map", "enum"}

Args(kinds) ==
  {[kind |-> k, v |-> v, s |-> ""] : k \in kinds \cap {"bool"}, v \in Values}
  \cup {[kind |-> k, v |-> 0, s |-> s] : k \in kinds \cap {"str", "borrowed_str", "string"}, s \in Keys}
  \cup {[kind |-> k, v |-> 0, s |-> ""] : k \in kinds \ {"bool", "str", "borrowed_str", "string"}}

\* a callback that passes a default instead of the argument
Wrap_forward_default(arg) == [arg EXCEPT !.v = 0]

\* what a Wrap visitor callback passes to the inner visitor
Wrap_forward(arg) == arg

\* a Wrap that starts its accessors again from Root
Wrap_nested_from_root(kind, chain) ==
  CASE kind = "some" -> ChainSome(chain)
    [] kind = "newtype_struct" -> ChainNewtypeStruct(chain)
    [] OTHER -> Root

\* the chain of the Deserializer that visit_some and visit_newtype_struct build
Wrap_nested(kind, chain) ==
  CASE kind = "some" -> ChainSome(chain)
    [] kind = "newtype_struct" -> ChainNewtypeStruct(chain)
    [] OTHER -> chain

\* Wrap::visit_bool .. visit_byte_buf
VisitCall(arg) ==
  /\ stack # <<>> /\ Top.op \in {"Deserializer", "tuple_variant", "struct_variant"} /\ ~Top.used
  /\ LET chain == Top.nested
         frame == [Frame("Visit", chain, Wrap_nested(arg.kind, chain))
                     EXCEPT !.arg = arg, !.fwd = Wrap_forward(arg)]
     IN Call([Top EXCEPT !.used = TRUE], frame)

\* chain.clone(): the owned text of the node itself is copied, the parent is a reference
Chain_clone_copies(chain) ==
  IF chain # Root /\ Head(chain).t \in {"Map", "Enum"} THEN 1 ELSE 0

\* TrackedSeed::deserialize
TrackedSeedCall ==
  /\ stack # <<>>
  /\ Top.op \in {"next_element_seed", "next_value_seed", "newtype_variant_seed"} /\ ~Top.used
  /\ LET chain == Top.nested
     IN CallWith(Push([Top EXCEPT !.used = TRUE], Frame("TrackedSeed", chain, chain)),
                 Chain_clone_copies(chain))

IsVisit(f, kind) == f.op = "Visit" /\ f.arg.kind = kind

\* an index read after the increment
SeqAccess_chain_incremented(parent, index) == ChainSeq(parent, index + 1)

\* SeqAccess::next_element_seed
SeqAccess_chain(parent, index) == ChainSeq(parent, index)

\* an index that is never advanced
SeqAccess_index_kept(index) == index

\* self.index += 1
SeqAccess_next_index(index) == index + 1

NextElementCall ==
  /\ stack # <<>> /\ IsVisit(Top, "seq")
  /\ Top.index < MaxIndex
  /\ LET parent == Top.nested
         chain == SeqAccess_chain(parent, Top.index)
     IN Call([Top EXCEPT !.index = SeqAccess_next_index(Top.index), !.calls = Top.calls + 1],
             Frame("next_element_seed", parent, chain))

\* the chain MapAccess builds from its key slot
MapAccess_chain(parent, key) ==
  IF is_none(key) THEN ChainNonStringKey(parent) ELSE ChainMap(parent, unwrap(key))

\* MapAccess::next_key_seed
NextKeyCall ==
  /\ stack # <<>> /\ IsVisit(Top, "map")
  /\ LET chain == Top.nested
     IN Call([Top EXCEPT !.delivered = None, !.ended = FALSE],
             [Frame("next_key_seed", chain, chain) EXCEPT !.slot = Len(stack)])

\* a next_value_seed that reads the slot without taking the key out
NextValueCall_keeps_key ==
  /\ stack # <<>> /\ IsVisit(Top, "map")
  /\ LET parent == Top.nested
         chain == MapAccess_chain(parent, Top.key)
     IN Call([Top EXCEPT !.delivered = None, !.ended = FALSE],
             [Frame("next_value_seed", parent, chain) EXCEPT !.entry = Top.delivered])

\* MapAccess::next_value_seed
NextValueCall ==
  /\ stack # <<>> /\ IsVisit(Top, "map")
  /\ LET parent == Top.nested
         chain == MapAccess_chain(parent, Top.key)
     IN Call([Top EXCEPT !.key = None, !.delivered = None, !.ended = FALSE],
             [Frame("next_value_seed", parent, chain) EXCEPT !.entry = Top.delivered])

\* EnumAccess::variant_seed of Wrap
VariantSeedCall ==
  /\ stack # <<>> /\ IsVisit(Top, "enum") /\ ~Top.used
  /\ LET chain == Top.nested
     IN Call([Top EXCEPT !.used = TRUE],
             [Frame("variant_seed", chain, chain) EXCEPT !.slot = Len(stack) + 1])

\* the chain of the TrackedSeed or Wrap a WrapVariant hands to its delegate
WrapVariant_nested(op, chain) ==
  IF op = "newtype_variant_seed" THEN ChainNewtypeVariant(chain) ELSE chain

\* WrapVariant::unit_variant, newtype_variant_seed, tuple_variant, struct_variant
VariantCall(op) ==
  /\ stack # <<>> /\ IsVisit(Top, "enum") /\ ~is_none(Top.va)
  /\ LET chain == unwrap(Top.va)
     IN Call([Top EXCEPT !.va = None], Frame(op, chain, WrapVariant_nested(op, chain)))

VariantOps == {"unit_variant", "newtype_variant_seed", "tuple_variant", "struct_variant"}

\* CaptureKey as DeserializeSeed: deserialize
CaptureKeySeedCall ==
  /\ stack # <<>> /\ Top.op \in {"next_key_seed", "variant_seed"} /\ ~Top.used
  /\ Call([Top EXCEPT !.used = TRUE],
          [Frame("CaptureKeySeed", Root, Root) EXCEPT !.slot = Top.slot])

\* CaptureKey as Deserializer: deserialize_any .. deserialize_identifier
CaptureKeyDeCall ==
  /\ stack # <<>> /\ Top.op = "CaptureKeySeed" /\ ~Top.used
  /\ Call([Top EXCEPT !.used = TRUE],
          [Frame("CaptureKeyDe", Root, Root) EXCEPT !.slot = Top.slot])

StrKinds == {"str", "borrowed_str", "string"}
CaptureKinds == StrKinds \cup {"bool", "some", "newtype_struct"}

\* history: the text of the key a callback carries
KeyText(arg) == IF arg.kind \in StrKinds THEN Some(arg.s) ELSE None

\* a callback without text that empties the slot
CaptureKey_key_clears(arg, key) == IF arg.kind \in StrKinds THEN Some(arg.s) ELSE None

\* what a CaptureKey visitor callback leaves in the slot
CaptureKey_key(arg, key) == IF arg.kind \in StrKinds THEN Some(arg.s) ELSE key

\* v.to_owned() and v.clone() in the string callbacks
CaptureKey_copies(arg) == IF arg.kind \in StrKinds THEN 1 ELSE 0

\* what a CaptureKey visitor callback passes to the inner visitor
CaptureKey_forward(arg) == arg

\* CaptureKey as Visitor: visit_bool .. visit_byte_buf
CaptureKeyVisitCall(arg) ==
  /\ stack # <<>> /\ Top.op = "CaptureKeyDe" /\ ~Top.used
  /\ LET owner == stack[Top.slot]
         captured == [owner EXCEPT !.key = CaptureKey_key(arg, owner.key),
                                   !.delivered = Some(KeyText(arg))]
         frame == [Frame("CaptureKeyVisit", Root, Root)
                     EXCEPT !.slot = Top.slot, !.arg = arg, !.fwd = CaptureKey_forward(arg)]
     IN CallWith(Append([SetTop([Top EXCEPT !.used = TRUE]) EXCEPT ![Top.slot] = captured],
                        frame),
                 CaptureKey_copies(arg))

(***************************************************************************)
(* Decorator operations, second half: the delegate has returned `res`.     *)
(***************************************************************************)
\* .map_err(|err| track.trigger(chain, err)), on the result and on the Track
map_err_res(r, t, chain) ==
  IF r.kind = "err" THEN Err(trigger(t, chain, r.err).err) ELSE r

\* a trigger on every return, not only on an error
map_err_track_always(r, t, chain) == trigger(t, chain, r.err).track

map_err_track(r, t, chain) ==
  IF r.kind = "err" THEN trigger(t, chain, r.err).track ELSE t

Site(f, chain) == [leaf |-> f.op = "Visit" /\ f.arg.kind \in LeafKinds, chain |-> chain]

Triggered(chain) ==
  /\ first' = IF res.kind = "err" /\ is_none(first) THEN Some(chain) ELSE first
  /\ seen' = IF res.kind = "err" /\ is_none(seen) THEN Some(Site(Top, chain)) ELSE seen

Max(a, b) == IF a < b THEN b ELSE a

\* history: the number of entries above a value that lies under string keys only
MapDepth(chain) == IF \A i \in 1..Len(chain) : chain[i].t = "Map" THEN Len(chain) ELSE 0

\* return to the caller, the delegate of the frame below
Return(chain, newstack) ==
  /\ pc = "dec"
  /\ buffered' = IF Top.op = "next_value_seed" /\ res.kind = "ok"
                 THEN Max(buffered, MapDepth(Top.nested)) ELSE buffered
  /\ res' = map_err_res(res, track, chain)
  /\ track' = map_err_track(res, track, chain)
  /\ Triggered(chain)
  /\ stack' = newstack
  /\ pc' = "ext"
  /\ hint' = NoHint
  /\ copied' = IF res.kind = "err" THEN trigger_copies(track, chain) ELSE 0
  /\ UNCHANGED <<result, lax, recovered, shown, only_unknown>>

\* a Deserializer that returns the backend's error without a trigger
DeserializerRet_no_trigger ==
  /\ stack # <<>> /\ Top.op = "Deserializer"
  /\ pc = "dec"
  /\ stack' = Pop
  /\ pc' = "ext"
  /\ hint' = NoHint
  /\ copied' = 0
  /\ UNCHANGED <<res, track, result, lax, recovered, first, seen, buffered, shown, only_unknown>>

\* Deserializer::deserialize_*: trigger with self.chain
DeserializerRet ==
  /\ stack # <<>> /\ Top.op = "Deserializer"
  /\ Return(Top.chain, Pop)

\* primitive callbacks that only forward, without map_err
VisitRet_forward_only ==
  /\ stack # <<>> /\ Top.op = "Visit"
  /\ IF Top.arg.kind \in LeafKinds
     THEN /\ pc = "dec"
          /\ stack' = Pop
          /\ pc' = "ext"
          /\ hint' = NoHint
          /\ copied' = 0
          /\ UNCHANGED <<res, track, result, lax, recovered, first, seen, buffered, shown, only_unknown>>
     ELSE Return(Top.chain, Pop)

\* Wrap::visit_*: trigger with self.chain
VisitRet ==
  /\ stack # <<>> /\ Top.op = "Visit"
  /\ Return(Top.chain, Pop)

\* a TrackedSeed that returns the seed's error without a trigger
TrackedSeedRet_no_trigger ==
  /\ stack # <<>> /\ Top.op = "TrackedSeed"
  /\ pc = "dec"
  /\ stack' = Pop
  /\ pc' = "ext"
  /\ hint' = NoHint
  /\ copied' = 0
  /\ UNCHANGED <<res, track, result, lax, recovered, first, seen, buffered, shown, only_unknown>>

\* TrackedSeed::deserialize: trigger with self.chain
TrackedSeedRet ==
  /\ stack # <<>> /\ Top.op = "TrackedSeed"
  /\ Return(Top.chain, Pop)

\* a fallback trigger with the chain of the element
NextElementRet_extended ==
  /\ stack # <<>> /\ Top.op = "next_element_seed"
  /\ Return(Top.nested, Pop)

\* SeqAccess::next_element_seed: trigger with the parent chain
NextElementRet ==
  /\ stack # <<>> /\ Top.op = "next_element_seed"
  /\ Return(Top.chain, Pop)

\* MapAccess::next_value_seed: trigger with the parent chain
NextValueRet ==
  /\ stack # <<>> /\ Top.op = "next_value_seed"
  /\ Return(Top.chain, Pop)

\* MapAccess::next_key_seed: on an error, key.take() decides the chain
NextKeyRet ==
  /\ stack # <<>> /\ Top.op = "next_key_seed"
  /\ IF res.kind = "err"
     THEN Return(MapAccess_chain(Top.chain, Below.key),
                 [Pop EXCEPT ![Len(stack) - 1] = [Below EXCEPT !.key = None, !.delivered = None]])
     ELSE Return(Top.chain,
                 [Pop EXCEPT ![Len(stack) - 1] = [Below EXCEPT !.ended = (res.kind = "end")]])

\* a WrapVariant that never carries the captured variant
EnumAccess_chain_unknown(parent, variant) == ChainNonStringKey(parent)

\* the chain of the WrapVariant that variant_seed returns
EnumAccess_chain(parent, variant) ==
  IF is_none(variant) THEN ChainNonStringKey(parent) ELSE ChainEnum(parent, unwrap(variant))

\* Wrap::variant_seed: trigger with self.chain, or hand the visitor a WrapVariant
VariantSeedRet ==
  /\ stack # <<>> /\ Top.op = "variant_seed"
  /\ IF res.kind = "err"
     THEN Return(Top.chain, Pop)
     ELSE Return(Top.chain,
                 [Pop EXCEPT ![Len(stack) - 1] =
                    [Below EXCEPT !.va = Some(EnumAccess_chain(Top.chain, Top.key))]])

\* a WrapVariant that triggers with the chain of the enum
VariantRet_parent ==
  /\ stack # <<>> /\ Top.op \in VariantOps
  /\ Return(Tail(Top.chain), Pop)

\* WrapVariant::*: trigger with self.chain
VariantRet ==
  /\ stack # <<>> /\ Top.op \in VariantOps
  /\ Return(Top.chain, Pop)

\* CaptureKey: the delegate's result as it is, and no trigger
CaptureKeyRet ==
  /\ stack # <<>> /\ Top.op \in CaptureKeyOps
  /\ pc = "dec"
  /\ stack' = Pop
  /\ pc' = "ext"
  /\ hint' = NoHint
  /\ UNCHANGED <<res, track, result, lax, recovered, first, seen, buffered, shown, only_unknown>>
  /\ copied' = 0

\* deserialize(): Ok(t), or Err(Error { path: track.path(), original: err })
deserialize_result(r, t) ==
  IF r.kind = "err"
  THEN [kind |-> "err", val |-> 0, path |-> Track_path(t), original |-> r.err]
  ELSE [kind |-> "ok", val |-> r.val, path |-> empty, original |-> 0]

DeserializeRet ==
  /\ stack # <<>> /\ Top.op = "deserialize"
  /\ pc = "dec"
  /\ result' = deserialize_result(res, track)
  /\ stack' = Pop
  /\ pc' = "done"
  /\ hint' = NoHint
  /\ UNCHANGED <<res, track, lax, recovered, first, seen, buffered, shown, only_unknown>>
  /\ copied' = 0

(***************************************************************************)
(* SeqAccess::size_hint and MapAccess::size_hint.                          *)
(***************************************************************************)
Hints == {None, Some(0), Some(1)}

size_hint(delegate) == delegate

SizeHint ==
  /\ pc = "ext" /\ stack # <<>>
  /\ IsVisit(Top, "seq") \/ IsVisit(Top, "map")
  /\ ~hint.asked
  /\ \E h \in Hints : hint' = [asked |-> TRUE, delegate |-> h, got |-> size_hint(h)]
  /\ UNCHANGED <<stack, pc, res, track, result, lax, recovered, first, seen, buffered, shown, only_unknown>>
  /\ copied' = 0

(***************************************************************************)
(* The caller renders the Path of the Error it got: e.path().to_string().  *)
(***************************************************************************)
Display ==
  /\ pc = "done" /\ result.kind = "err"
  /\ shown' = fmt_Path(result.path)
  /\ pc' = "shown"
  /\ UNCHANGED <<stack, res, track, result, lax, recovered, first, seen, buffered, hint, only_unknown>>
  /\ copied' = 0

Next ==
  \/ \E v \in Values : EnvReturnOk(v)
  \/ EnvReturnEnd
  \/ EnvReturnErr
  \/ EnvPropagate
  \/ DeserializerCall
  \/ \E arg \in Args(WrapKinds) : VisitCall(arg)
  \/ TrackedSeedCall
  \/ NextElementCall
  \/ NextKeyCall
  \/ NextValueCall
  \/ VariantSeedCall
  \/ \E op \in VariantOps : VariantCall(op)
  \/ CaptureKeySeedCall
  \/ CaptureKeyDeCall
  \/ \E arg \in Args(CaptureKinds) : CaptureKeyVisitCall(arg)
  \/ DeserializerRet
  \/ VisitRet
  \/ TrackedSeedRet
  \/ NextElementRet
  \/ NextValueRet
  \/ NextKeyRet
  \/ VariantSeedRet
  \/ VariantRet
  \/ CaptureKeyRet
  \/ DeserializeRet
  \/ SizeHint
  \/ Display

Spec == Init /\ [][Next]_vars

(***************************************************************************)
(* Track::path and Display on their own: a Track that is empty or holds    *)
(* any Path of up to MaxSegments segments is finalized into an Error, and  *)
(* the caller renders the Path of that Error.                              *)
(***************************************************************************)
\* segments of a Path drawn as input
MaxSegments == 3

Indices == 0..MaxIndex \cup {12}

Segments ==
  {SegmentSeq(i) : i \in Indices} \cup {SegmentMap(k) : k \in Keys}
  \cup {SegmentEnum(v) : v \in Keys} \cup {SegmentUnknown}

Paths == UNION {[1..n -> Segments] : n \in 0..MaxSegments}

PathInit ==
  /\ track \in {None} \cup {Some(path) : path \in Paths}
  /\ stack = <<>>
  /\ pc = "path"
  /\ res = Err(1)
  /\ result = NoResult
  /\ lax = FALSE
  /\ recovered = 0
  /\ first = None
  /\ seen = None
  /\ buffered = 0
  /\ hint = NoHint
  /\ shown = ""
  /\ copied = 0
  /\ only_unknown = None

\* the Err arm of deserialize(): Error { path: track.path(), original: err }
Finalize ==
  /\ pc = "path"
  /\ result' = deserialize_result(res, track)
  /\ pc' = "done"
  /\ UNCHANGED <<stack, res, track, lax, recovered, first, seen, buffered, hint, shown, only_unknown>>
  /\ copied' = 0

\* path.is_only_unknown() on the Path of the Error
IsOnlyUnknown ==
  /\ pc \in {"done", "shown"} /\ result.kind = "err"
  /\ is_none(only_unknown)
  /\ only_unknown' = Some(is_only_unknown(result.path))
  /\ UNCHANGED <<stack, pc, res, track, result, lax, recovered, first, seen, buffered, hint,
                 shown, copied>>

PathNext ==
  \/ Finalize
  \/ Display
  \/ IsOnlyUnknown

PathSpec == PathInit /\ [][PathNext]_vars

(***************************************************************************)
(* Path::from_chain on its own: a decorator that holds any Chain of up to  *)
(* MaxNodes nodes, of all the variants path.rs matches on, triggers on an  *)
(* empty Track.                                                            *)
(***************************************************************************)
\* nodes of a Chain drawn as input
MaxNodes == 3

ChainNodes ==
  {[t |-> "Seq", index |-> i, key |-> ""] : i \in 0..MaxIndex}
  \cup {[t |-> n, index |-> 0, key |-> k] : n \in {"Map", "Struct", "Enum"}, k \in Keys}
  \cup {[t |-> n, index |-> 0, key |-> ""] :
          n \in {"Some", "NewtypeStruct", "NewtypeVariant", "NonStringKey"}}

Chains == UNION {[1..n -> ChainNodes] : n \in 0..MaxNodes}

ChainInit ==
  /\ \E chain \in Chains : stack = <<Frame("Deserializer", chain, chain)>>
  /\ pc = "dec"
  /\ res = Err(1)
  /\ track = Track_new
  /\ result = NoResult
  /\ lax = FALSE
  /\ recovered = 0
  /\ first = None
  /\ seen = None
  /\ buffered = 0
  /\ hint = NoHint
  /\ shown = ""
  /\ copied = 0
  /\ only_unknown = None

ChainNext == DeserializerRet

ChainSpec == ChainInit /\ [][ChainNext]_vars

(***************************************************************************)
(* Properties.                                                             *)
(***************************************************************************)
\* the Path the recorded chain materializes to
PathOf(chain) == IF is_none(chain) THEN empty ELSE from_chain(unwrap(chain))

\* the chain of the first trigger call for the error in flight
SeenChain == IF is_none(seen) THEN None ELSE Some(unwrap(seen).chain)

\* a decorator operation other than deserialize() holds the error its delegate returned
DelegateFailed == pc = "dec" /\ stack # <<>> /\ res.kind = "err"

\* C1: Track is set-once: after the first trigger call the stored Path is the
\* Path materialized from the chain of that first call, and every later
\* trigger, with whatever chain, leaves it unchanged.
C1_SetOnce ==
  track = IF is_none(first) THEN None ELSE Some(from_chain(unwrap(first)))

\* a later trigger was called with a chain of another Path and changed nothing
C1_Witness ==
  /\ ~is_none(first) /\ ~is_none(seen)
  /\ PathOf(SeenChain) # PathOf(first)
  /\ track = Some(PathOf(first))

\* the segment a chain node stands for
NodeSegment(node) ==
  CASE node.t = "Seq" -> SegmentSeq(node.index)
    [] node.t \in {"Map", "Struct"} -> SegmentMap(node.key)
    [] node.t = "Enum" -> SegmentEnum(node.key)
    [] OTHER -> SegmentUnknown

\* the segment a layer of the call stack adds to the location of what it decodes
LayerSegments(f) ==
  IF f.op \in {"next_element_seed", "next_value_seed"} /\ f.nested # Root
  THEN <<NodeSegment(Head(f.nested))>>
  ELSE IF f.op \in VariantOps /\ f.chain # Root
       THEN <<NodeSegment(Head(f.chain))>>
       ELSE <<>>

RECURSIVE StackPath(_)
StackPath(s) == IF s = <<>> THEN <<>> ELSE LayerSegments(Head(s)) \o StackPath(Tail(s))

LeafFails ==
  /\ DelegateFailed /\ Top.op = "Visit" /\ Top.arg.kind \in LeafKinds
  /\ is_none(track)

\* C2: when a leaf visitor callback fails beneath sequence, map, enum, option
\* and newtype layers, the trigger of the leaf's own Wrap fires first and
\* records the full root-to-leaf path of the failing value; the trigger of
\* every enclosing layer during the unwind changes nothing.
C2_NearestLayerFirst ==
  [][/\ LeafFails => track' = Some(StackPath(stack))
     /\ (DelegateFailed /\ ~is_none(seen)) => track' = track]_vars

\* a leaf failed in element 0 of tuple variant "a" and the error has unwound
C2_Witness ==
  /\ pc = "ext" /\ Holding /\ Len(stack) <= 2
  /\ ~is_none(seen) /\ unwrap(seen).leaf
  /\ track = Some(<<SegmentEnum("a"), SegmentSeq(0)>>)

\* C3: a decorator operation that receives an error from its delegate returns
\* exactly that error to its caller, and deserialize() returns it as
\* Error.original.
C3_ErrorUnchanged ==
  [][DelegateFailed =>
       IF Top.op = "deserialize"
       THEN result'.kind = "err" /\ result'.original = res.err
       ELSE res' = res /\ pc' = "ext"]_vars

\* a decode failed two segments deep and the error reached the caller
C3_Witness ==
  result.kind = "err" /\ result.original = 1 /\ Len(result.path) >= 2

C5_Original ==
  (pc = "done" /\ result.kind = "ok") => is_none(track)

\* C5 amended: whenever the top-level decode returns success and no visitor,
\* seed or backend went on after it had received an error, Track is empty.
C5_EmptyOnSuccess ==
  (pc = "done" /\ result.kind = "ok" /\ recovered = 0) => is_none(track)

\* a decode through two map levels succeeded with nothing recovered
C5_Witness ==
  pc = "done" /\ result.kind = "ok" /\ recovered = 0 /\ buffered >= 2

\* C6 as stated: whenever the top-level decode fails, the Path of Track is
\* the location of the failure whose error is returned, never that of an
\* earlier failure of the same decode.
C6_Original ==
  (pc = "done" /\ result.kind = "err") => result.path = PathOf(SeenChain)

\* C6 amended: whenever the top-level decode fails, the Path of Track is the
\* location of the first failure that a decorated frame observed in this
\* decode; it is the location of the returned error whenever no visitor, seed
\* or backend went on after an earlier error.
C6_FirstFailure ==
  (pc = "done" /\ result.kind = "err") =>
    /\ result.path = PathOf(first)
    /\ recovered = 0 => first = SeenChain

\* a decode failed at a location below the root
C6_Witness ==
  pc = "done" /\ result.kind = "err" /\ recovered = 0 /\ ~is_none(first)
  /\ Len(result.path) >= 2

\* the layers of the call stack that stand for a container level
LayerOps == {"next_element_seed", "next_value_seed"} \cup VariantOps

Layers(s) == {i \in 1..Len(s) : s[i].op \in LayerOps}

Innermost(s) == CHOOSE i \in Layers(s) : \A j \in Layers(s) : j <= i

\* the first failure of a decode, observed while the value of the innermost
\* container level is decoded
ValueFails ==
  /\ DelegateFailed /\ Top.op \in {"TrackedSeed", "Deserializer", "Visit"}
  /\ is_none(track)
  /\ Layers(stack) # {}

StringKey(f) == ~is_none(f.entry) /\ ~is_none(unwrap(f.entry))

\* every container level above the failing value is a string-keyed entry
MapOnly(s) == \A i \in Layers(s) : s[i].op = "next_value_seed" /\ StringKey(s[i])

\* the keys the backend delivered for the entries being decoded, outermost first
RECURSIVE EntryKeys(_)
EntryKeys(s) ==
  IF s = <<>> THEN <<>>
  ELSE (IF Head(s).op = "next_value_seed" THEN <<unwrap(unwrap(Head(s).entry))>> ELSE <<>>)
       \o EntryKeys(Tail(s))

KeyPath(keys) == [i \in 1..Len(keys) |-> SegmentMap(keys[i])]

RECURSIVE JoinDots(_)
JoinDots(keys) ==
  IF Len(keys) = 1 THEN keys[1] ELSE keys[1] \o "." \o JoinDots(Tail(keys))

\* C7: when decoding fails inside the value of a string-keyed entry nested
\* under other string-keyed entries, the recorded Path is exactly the keys
\* from the root to the failing entry, in that order, and it renders as the
\* keys joined by '.'.
C7_KeyNames ==
  [][(ValueFails /\ MapOnly(stack)) =>
       /\ track' = Some(KeyPath(EntryKeys(stack)))
       /\ fmt_Path(unwrap(track')) = JoinDots(EntryKeys(stack))]_vars

\* the value of entry "b" in the value of entry "a" failed
C7_Witness ==
  /\ pc = "ext" /\ Holding /\ recovered = 0
  /\ track = Some(<<SegmentMap("a"), SegmentMap("b")>>)
  /\ fmt_Path(unwrap(track)) = "a.b"

\* the number of next-element calls made before the one in progress
ElementIndex(s) == s[Innermost(s) - 1].index - 1

ElementFails == ValueFails /\ stack[Innermost(stack)].op = "next_element_seed"

Parent(path) == SubSeq(path, 1, Len(path) - 1)

\* C8 as stated: when decoding fails while decoding the sequence element at
\* index i, the last segment of the recorded Path is the sequence index i and
\* the Path renders as the rendering of its parent path followed by '[i]'.
C8_Original ==
  [][ElementFails =>
       LET path == unwrap(track')
           i == ElementIndex(stack)
       IN /\ path # empty /\ path[Len(path)] = SegmentSeq(i)
          /\ fmt_Path(path) = fmt_Path(Parent(path)) \o "[" \o ToString(i) \o "]"]_vars

\* C8 amended: the last segment of the recorded Path is the sequence index i,
\* and the Path renders as '[i]' appended, with no '.' before it, to the
\* rendering of its parent path when that is not empty, and as '[i]' alone
\* when it is (the parent alone would render as '.').
C8_SeqIndex ==
  [][ElementFails =>
       LET path == unwrap(track')
           i == ElementIndex(stack)
           before == IF Parent(path) = empty THEN "" ELSE fmt_Path(Parent(path))
       IN /\ path # empty /\ path[Len(path)] = SegmentSeq(i)
          /\ fmt_Path(path) = before \o "[" \o ToString(i) \o "]"]_vars

\* element 1 of the sequence in entry "a" failed
C8_Witness ==
  /\ pc = "ext" /\ Holding /\ recovered = 0
  /\ track = Some(<<SegmentMap("a"), SegmentSeq(1)>>)
  /\ fmt_Path(unwrap(track)) = "a[1]"

NonStringKey(f) == ~is_none(f.entry) /\ is_none(unwrap(f.entry))

\* C9: when decoding fails inside a map value whose key the backend did not
\* deliver through a string callback, the recorded Path has one segment for
\* every container level, the one of that map level is Unknown, and it
\* renders as '?'.
C9_UnknownSegment ==
  [][(/\ ValueFails
      /\ stack[Innermost(stack)].op = "next_value_seed"
      /\ NonStringKey(stack[Innermost(stack)])) =>
       LET path == unwrap(track')
       IN /\ Len(path) = Cardinality(Layers(stack))
          /\ path[Len(path)] = SegmentUnknown
          /\ fmt_Segment(path[Len(path)]) = "?"]_vars

\* C10: when the payload of an internally tagged enum is decoded after the
\* whole map, entries of entries included, has been read and buffered, a
\* failure inside the payload records a Path that ends in the payload's
\* failing field.
C10_BufferedPayload ==
  (pc = "done" /\ result.kind = "err" /\ recovered = 0 /\ is_none(seen) /\ buffered >= 2) =>
    /\ result.path # empty
    /\ result.path[Len(result.path)].t = "Map"
    /\ fmt_Path(result.path) # "."

\* the inner map visitor reports an error of its own right after the
\* end of the map, before any other failure of the decode
MissingField ==
  /\ DelegateFailed /\ IsVisit(Top, "map") /\ Top.ended
  /\ is_none(seen) /\ is_none(track)

\* C11: when a struct's map visitor reports a missing required field after
\* all keys have been read, the recorded Path is the struct's own path
\* followed by a segment naming the missing field, and the error returned is
\* still the visitor's.
C11_MissingField ==
  [][MissingField =>
       /\ ~is_none(track') /\ unwrap(track') # empty
       /\ Parent(unwrap(track')) = from_chain(Top.chain)
       /\ unwrap(track')[Len(unwrap(track'))].t = "Map"
       /\ res' = res]_vars

\* the text of one segment
SegmentText(segment) ==
  CASE segment.t = "Seq" -> "[" \o ToString(segment.index) \o "]"
    [] segment.t = "Unknown" -> "?"
    [] OTHER -> segment.key

\* '.' goes before every segment but the first and the sequence indices
Piece(path, i) ==
  (IF i = 1 \/ path[i].t = "Seq" THEN "" ELSE ".") \o SegmentText(path[i])

RECURSIVE Pieces(_, _)
Pieces(path, n) == IF n = 0 THEN "" ELSE Pieces(path, n - 1) \o Piece(path, n)

\* C12: the empty Path renders as '.'; a non-empty Path renders its segments
\* in order, with '.' before every segment except the first and except the
\* sequence indices, which are written '[n]'; keys and variants render as
\* their text and Unknown as '?'.
C12_Rendering ==
  pc = "shown" =>
    shown = IF result.path = empty THEN "." ELSE Pieces(result.path, Len(result.path))

\* a Path of a key, a two-digit index and an unknown key has been rendered
C12_Witness ==
  /\ pc = "shown"
  /\ result.path = <<SegmentMap("a"), SegmentSeq(12), SegmentUnknown>>
  /\ shown = "a[12].?"

\* C13: Track::path returns the Path stored by the first trigger, or the
\* empty Path when no trigger ever occurred on the Track; it always returns.
C13_TrackPath ==
  (pc \in {"done", "shown"} /\ result.kind = "err") =>
    result.path = IF is_none(first) THEN empty ELSE unwrap(track)

\* a decode failed without any trigger, and the Error holds the empty Path
C13_Witness ==
  pc = "done" /\ result.kind = "err" /\ is_none(first) /\ result.path = empty

\* a string callback of CaptureKey is being forwarded
CaptureStep ==
  /\ pc = "ext" /\ stack # <<>> /\ Top.op = "CaptureKeyDe"
  /\ Len(stack') = Len(stack) + 1
  /\ stack'[Len(stack')].arg.kind \in StrKinds

\* TrackedSeed::deserialize is building the Deserializer of a string-keyed value
CloneStep ==
  /\ pc = "ext" /\ Len(stack') = Len(stack) + 1
  /\ stack'[Len(stack')].op = "TrackedSeed"
  /\ stack'[Len(stack')].chain # Root
  /\ Head(stack'[Len(stack')].chain).t = "Map"

\* the first trigger on the Track materializes the Path
MaterializeStep ==
  /\ DelegateFailed /\ is_none(track) /\ ~is_none(track')
  /\ copied' = Cardinality({i \in 1..Len(unwrap(track')) :
                              unwrap(track')[i].t \in {"Map", "Enum"}})

\* C14 as stated: on a decode in which no error occurs the tracking layer
\* makes no owned copy of any key or variant text.
C14_Original ==
  (is_none(first) /\ recovered = 0 /\ res.kind # "err") => copied = 0

\* C14 amended: a Path is built only by the first trigger of a decode, on an
\* error; owned copies of key or variant text are made only by the string
\* callbacks of CaptureKey (one per callback), by TrackedSeed::deserialize
\* when it clones the chain of a string-keyed value (one), and by that first
\* trigger (one per key and variant of the Path); extending the Chain copies
\* nothing.
C14_Copies ==
  [][/\ track' # track => (DelegateFailed /\ is_none(track))
     /\ copied' > 0 =>
          \/ CaptureStep /\ copied' = 1
          \/ CloneStep /\ copied' = 1
          \/ MaterializeStep]_vars

\* the first trigger has just materialized a Path of two keys
C14_Witness ==
  /\ pc = "ext" /\ Holding /\ copied = 2
  /\ track = Some(<<SegmentMap("a"), SegmentMap("b")>>)

\* the inner visitor has returned from a primitive callback of Wrap
PrimitiveReturns ==
  pc = "dec" /\ stack # <<>> /\ Top.op = "Visit" /\ Top.arg.kind \in LeafKinds

\* C16 as stated: a primitive callback of Wrap only forwards and never
\* changes Track, also when the inner visitor returns an error.
C16_Original ==
  [][PrimitiveReturns => track' = track]_vars

\* C16 amended: a primitive callback of Wrap forwards its argument as it is
\* and extends no Chain; it leaves Track unchanged when the inner visitor
\* returns Ok, and when the inner visitor returns an error it triggers with
\* the chain of the Deserializer that was given the Wrap, which stores that
\* chain's Path if Track is empty.
C16_Primitive ==
  [][PrimitiveReturns =>
       /\ Top.fwd = Top.arg
       /\ Top.nested = Top.chain /\ Top.chain = Below.nested
       /\ track' = IF res.kind = "err" /\ is_none(track)
                   THEN Some(from_chain(Below.nested)) ELSE track]_vars

\* a primitive callback under key "a" failed and its trigger stored the Path
C16_Witness ==
  /\ pc = "ext" /\ Holding /\ stack # <<>> /\ Top.op = "Deserializer"
  /\ ~is_none(seen) /\ unwrap(seen).leaf
  /\ track = Some(<<SegmentMap("a")>>)

\* C17: the index of a SeqAccess starts at 0 and grows by exactly 1 with
\* every next_element_seed call, whatever the earlier calls returned, and the
\* k-th call (k = 0, 1, 2, ...) tracks its element with sequence index k.
C17_IndexCounter ==
  \A j \in 1..Len(stack) :
    /\ IsVisit(stack[j], "seq") => stack[j].index = stack[j].calls
    /\ stack[j].op = "next_element_seed" =>
         /\ stack[j].nested # Root
         /\ Head(stack[j].nested) =
              [t |-> "Seq", index |-> stack[j - 1].calls - 1, key |-> ""]

\* call 0 failed in its element, the visitor went on, and call 1 tracks index 1
C17_Witness ==
  /\ recovered = 1 /\ first = Some(ChainSeq(Root, 0))
  /\ stack # <<>> /\ Top.op = "next_element_seed"
  /\ Top.nested = ChainSeq(Root, 1)

\* the key slot of the MapAccess that the next step returns to or calls from
SlotAfter == stack'[Len(stack) - 1].key

\* C18: the key slot of a MapAccess is empty while a value is decoded, after
\* every next_value_seed call, whatever it returned, and after every failed
\* next_key_seed call; a value decode that finds the slot empty is tracked
\* as Unknown, so no captured key is used by two value decodes.
C18_KeySlot ==
  /\ [](\A j \in 1..Len(stack) :
          stack[j].op = "next_value_seed" => is_none(stack[j - 1].key))
  /\ [][/\ (pc = "dec" /\ stack # <<>> /\ Top.op = "next_value_seed") =>
             is_none(SlotAfter)
        /\ (DelegateFailed /\ Top.op = "next_key_seed") => is_none(SlotAfter)
        /\ (/\ pc = "ext" /\ stack # <<>> /\ IsVisit(Top, "map") /\ is_none(Top.key)
            /\ Len(stack') = Len(stack) + 1
            /\ stack'[Len(stack')].op = "next_value_seed") =>
             stack'[Len(stack')].nested = ChainNonStringKey(Top.nested)]_vars

\* a key "a" was captured, its decode failed, and the slot is empty again
C18_Witness ==
  /\ pc = "ext" /\ Holding /\ stack # <<>> /\ IsVisit(Top, "map")
  /\ SeenChain = Some(ChainMap(Top.nested, "a"))
  /\ is_none(Top.key)

\* the segment of the key that this next-key call delivered before it failed
DeliveredSegment(f) ==
  IF ~is_none(f.delivered) /\ ~is_none(unwrap(f.delivered))
  THEN SegmentMap(unwrap(unwrap(f.delivered)))
  ELSE SegmentUnknown

\* C19: when decoding a map key fails, MapAccess triggers with the chain of
\* the map extended by one segment, the key text if a string callback
\* delivered it before the failure and Unknown otherwise, so with an empty
\* Track the recorded Path is the map's path plus that segment.
C19_KeyFailure ==
  [][(DelegateFailed /\ Top.op = "next_key_seed" /\ is_none(track)) =>
       track' = Some(Append(from_chain(Below.nested), DeliveredSegment(Below)))]_vars

\* the backend's next-element or next-value call failed and no decorator
\* frame inside it has triggered
BackendFails ==
  /\ DelegateFailed /\ Top.op \in {"next_element_seed", "next_value_seed"}
  /\ is_none(seen) /\ is_none(track)

\* C20: when the backend's next-element or next-value call fails without
\* the TrackedSeed having triggered, SeqAccess and MapAccess trigger with
\* the container's own chain, so the recorded Path is the container's path,
\* without the segment of the index or key.
C20_Fallback ==
  [][BackendFails =>
       /\ track' = Some(from_chain(Below.nested))
       /\ Len(unwrap(track')) = Len(from_chain(Top.nested)) - 1]_vars

\* the second next-element call of the sequence in entry "a" failed in the
\* backend, and the Path is that of the sequence
C20_Witness ==
  /\ pc = "ext" /\ Holding /\ recovered = 0
  /\ stack # <<>> /\ IsVisit(Top, "seq") /\ Top.index = 2
  /\ SeenChain = Some(Top.nested)
  /\ track = Some(<<SegmentMap("a")>>)

\* the backend's variant_seed has returned to Wrap::variant_seed
VariantReturns == pc = "dec" /\ stack # <<>> /\ Top.op = "variant_seed"

\* the parent chain extended by the variant this call delivered
DeliveredVariant(f, parent) ==
  IF ~is_none(f.delivered) /\ ~is_none(unwrap(f.delivered))
  THEN ChainEnum(parent, unwrap(unwrap(f.delivered)))
  ELSE ChainNonStringKey(parent)

\* C21: when decoding the variant fails, variant_seed triggers with the
\* un-extended parent chain, also when the variant text was captured before
\* the failure, and returns no VariantAccess; when it succeeds, the
\* VariantAccess it returns carries the parent chain extended by the captured
\* variant text, or by Unknown when no string callback delivered the variant.
C21_VariantSeed ==
  [][VariantReturns =>
       IF res.kind = "err"
       THEN /\ SeenChain' = Some(Below.nested)
            /\ is_none(track) => track' = Some(from_chain(Below.nested))
            /\ is_none(stack'[Len(stack) - 1].va)
       ELSE /\ stack'[Len(stack) - 1].va = Some(DeliveredVariant(Top, Below.nested))
            /\ track' = track]_vars

\* the enum in entry "a" got a VariantAccess for the captured variant "b"
C21_Witness ==
  /\ pc = "ext" /\ stack # <<>> /\ IsVisit(Top, "enum")
  /\ Top.va = Some(ChainEnum(ChainMap(Root, "a"), "b"))

\* a variant continuation holds an error of its delegate, and the Track is
\* empty or holds the Path of the first trigger for that error
ContinuationFails ==
  /\ DelegateFailed /\ Top.op \in VariantOps
  /\ is_none(track) \/ (~is_none(seen) /\ first = SeenChain)

\* C22: when a variant continuation (unit, newtype, tuple or struct variant)
\* fails, the recorded Path starts with the Path of the enum, followed by
\* the segment of the variant (its name, or Unknown), followed by the
\* segments of the place in the payload where the failure was first observed.
C22_VariantSegment ==
  [][ContinuationFails =>
       LET path == unwrap(track')
           parent == from_chain(Below.nested)
           n == Len(parent)
       IN /\ ~is_none(track') /\ Len(path) >= n + 1
          /\ SubSeq(path, 1, n) = parent
          /\ path[n + 1].t \in {"Enum", "Unknown"}
          /\ path[n + 1] = NodeSegment(Head(Top.chain))
          /\ is_none(seen) => Len(path) = n + 1
          /\ ~is_none(seen) =>
               SubSeq(path, n + 2, Len(path)) =
                 SubSeq(PathOf(SeenChain), n + 2, Len(PathOf(SeenChain)))]_vars

\* the value of entry "b" in the payload of newtype variant "a" failed
C22_Witness ==
  /\ pc = "ext" /\ Holding /\ recovered = 0
  /\ stack # <<>> /\ IsVisit(Top, "enum")
  /\ track = Some(<<SegmentEnum("a"), SegmentMap("b")>>)

Transparent == {"Some", "NewtypeStruct", "NewtypeVariant"}

\* the segments of the nodes from the leaf to Root, none for a transparent node
RECURSIVE Emitted(_)
Emitted(chain) ==
  IF chain = Root THEN <<>>
  ELSE (IF Head(chain).t \in Transparent THEN <<>> ELSE <<NodeSegment(Head(chain))>>)
       \o Emitted(Tail(chain))

Reversed(s) == [i \in 1..Len(s) |-> s[Len(s) + 1 - i]]

Reference(chain) == Reversed(Emitted(chain))

\* C23: Path::from_chain equals the reference function: the segments of the
\* Seq, Map, Struct, Enum and NonStringKey nodes from the leaf to Root,
\* reversed, and none for Some, NewtypeStruct and NewtypeVariant nodes; Root
\* alone gives the empty Path, and a chain wrapped in an Option or newtype
\* node gives the Path of the chain it wraps.
C23_FromChain ==
  ~is_none(first) =>
    LET chain == unwrap(first)
    IN /\ track = Some(Reference(chain))
       /\ chain = Root => track = Some(empty)
       /\ (chain # Root /\ Head(chain).t \in Transparent) =>
            track = Some(from_chain(Tail(chain)))

\* the chain Some -> Map "a" -> Seq 1 -> Root was converted
C23_Witness ==
  /\ first = Some(ChainSome(ChainMap(ChainSeq(Root, 1), "a")))
  /\ track = Some(<<SegmentSeq(1), SegmentMap("a")>>)

\* the backend calls a visitor callback of CaptureKey
CaptureKeyVisits ==
  /\ pc = "ext" /\ stack # <<>> /\ Top.op = "CaptureKeyDe"
  /\ Len(stack') = Len(stack) + 1

\* any other step of a CaptureKey: a decode-kind request, the call of the
\* seed, a return
CaptureKeyForwards ==
  /\ stack # <<>> /\ ~CaptureKeyVisits
  /\ \/ pc = "dec" /\ Top.op \in CaptureKeyOps
     \/ pc = "ext" /\ Len(stack') = Len(stack) + 1
          /\ stack'[Len(stack')].op \in CaptureKeyOps

\* the slot of the CaptureKey at the top of the stack after the step
CaptureSlot(f) == stack'[f.slot].key

\* C24: CaptureKey writes its slot only in visit_str, visit_borrowed_str and
\* visit_string, and before it forwards, so the text is in the slot while
\* the inner visitor runs and stays there when that visitor returns an
\* error; every other request and callback leaves the slot as it was, and
\* the inner visitor of visit_some and visit_newtype_struct gets the nested
\* decoder as it is, so nothing is captured from it.
C24_CaptureKey ==
  /\ [](\A j \in 1..Len(stack) :
          (stack[j].op = "CaptureKeyVisit" /\ stack[j].arg.kind \in StrKinds) =>
            stack[stack[j].slot].key = Some(stack[j].arg.s))
  /\ [][/\ CaptureKeyVisits =>
             LET f == stack'[Len(stack')]
             IN CaptureSlot(f) = IF f.arg.kind \in StrKinds
                                 THEN Some(f.arg.s) ELSE stack[f.slot].key
        /\ CaptureKeyForwards =>
             LET f == IF pc = "dec" THEN Top ELSE stack'[Len(stack')]
             IN CaptureSlot(f) = stack[f.slot].key
        /\ (pc = "ext" /\ stack # <<>> /\ Top.op = "CaptureKeyVisit") =>
             Len(stack') <= Len(stack)]_vars

\* the text "b" was captured and the inner visitor has returned an error
C24_Witness ==
  /\ DelegateFailed /\ Top.op = "CaptureKeyVisit" /\ Top.arg.kind = "borrowed_str"
  /\ stack[Top.slot].key = Some("b")

\* C25: Path::is_only_unknown returns true exactly when every segment of
\* the Path is Unknown: true for the empty Path, false as soon as one
\* segment is a sequence index, a map key or an enum variant.
C25_OnlyUnknown ==
  ~is_none(only_unknown) =>
    LET path == result.path
        answer == unwrap(only_unknown)
    IN /\ answer <=> {i \in 1..Len(path) : path[i] # SegmentUnknown} = {}
       /\ path = empty => answer
       /\ (\E i \in 1..Len(path) : path[i].t \in {"Seq", "Map", "Enum"}) => ~answer

\* the answer for two Unknown segments followed by a sequence index is false
C25_Witness ==
  /\ only_unknown = Some(FALSE)
  /\ result.path = <<SegmentUnknown, SegmentUnknown, SegmentSeq(0)>>

\* the backend failed a decode-kind request of a Deserializer before any
\* trigger of the decode
RequestFails ==
  /\ DelegateFailed /\ Top.op = "Deserializer"
  /\ is_none(seen) /\ is_none(track)

\* C26: when the backend fails a decode-kind request of a Deserializer and
\* no nested decorator has triggered, the trigger uses the chain that the
\* Deserializer was built with; the Deserializer that deserialize() builds
\* has the chain Root, so a failure of the top-level value itself records
\* the empty Path, which renders as '.'.
C26_TopLevel ==
  /\ [][RequestFails =>
          /\ track' = Some(from_chain(Below.nested))
          /\ SeenChain' = Some(Below.nested)
          /\ Below.op = "deserialize" => track' = Some(empty)]_vars
  /\ []((pc = "shown" /\ first = Some(Root)) => (result.path = empty /\ shown = "."))

\* the top-level request failed in the backend and the caller rendered '.'
C26_Witness ==
  /\ pc = "shown" /\ recovered = 0
  /\ seen = Some([leaf |-> FALSE, chain |-> Root])
  /\ track = Some(empty) /\ result.path = empty /\ shown = "."

\* the visitor calls next_value_seed on the MapAccess at the top of the stack
ValueCalled ==
  /\ pc = "ext" /\ stack # <<>> /\ IsVisit(Top, "map")
  /\ Len(stack') = Len(stack) + 1
  /\ stack'[Len(stack')].op = "next_value_seed"

\* the chain for the key that the most recent next-key call delivered
DeliveredChain(f) ==
  IF ~is_none(f.delivered) /\ ~is_none(unwrap(f.delivered))
  THEN ChainMap(f.nested, unwrap(unwrap(f.delivered)))
  ELSE ChainNonStringKey(f.nested)

\* C27: the chain that tracks a map value is determined by the most recent
\* next-key call only: the key text if that call delivered a string, and
\* Unknown if it delivered none (a non-string key, or the end of the map),
\* also when an earlier next-key call captured a text that no value decode
\* consumed; a key captured for one entry is never used for another's value.
C27_MostRecentKey ==
  [][ValueCalled => stack'[Len(stack')].nested = DeliveredChain(Top)]_vars

\* the operations of Deserializer, Wrap, SeqAccess, MapAccess, WrapVariant
\* and TrackedSeed
TrackingOps ==
  {"Deserializer", "Visit", "TrackedSeed", "next_element_seed", "next_key_seed",
   "next_value_seed", "variant_seed"} \cup VariantOps

\* one of them is about to return its delegate's error to its caller
DecoratorFails == DelegateFailed /\ Top.op \in TrackingOps

\* C28: whenever an operation of Deserializer, Wrap, SeqAccess, MapAccess,
\* EnumAccess, VariantAccess or TrackedSeed returns an error to its caller,
\* Track is non-empty at that moment; hence Track is empty after a failed
\* deserialize() only if no such operation returned the error, which was
\* then produced outside every decorated call; an error held while Track is
\* empty has only passed through CaptureKey, inside a next-key or variant
\* call that has not returned yet.
C28_TrackedOnError ==
  /\ [][DecoratorFails =>
          /\ ~is_none(track') /\ ~is_none(seen')
          /\ res' = res /\ Len(stack') = Len(stack) - 1]_vars
  /\ []((pc = "ext" /\ Holding /\ stack # <<>> /\ is_none(track)) =>
          is_none(seen) /\ Top.op \in CaptureKeyOps \cup {"next_key_seed", "variant_seed"})
  /\ []((pc = "done" /\ result.kind = "err" /\ is_none(track)) =>
          is_none(seen) /\ is_none(first))

\* unit_variant of variant "a" has returned the backend's error to the
\* visitor, and the Track holds the Path of the variant
C28_Witness ==
  /\ pc = "ext" /\ Holding /\ recovered = 0
  /\ stack # <<>> /\ IsVisit(Top, "enum")
  /\ seen = Some([leaf |-> FALSE, chain |-> ChainEnum(Root, "a")])
  /\ track = Some(<<SegmentEnum("a")>>)

====
